---- MODULE Spec2Model ----
(***************************************************************************)
(* Squarified treemap of pheme (pheme/templatetags/charts/treemap.py).     *)
(*                                                                         *)
(* Numbers are exact rationals <<n, d>> with d > 0 in lowest terms; they   *)
(* stand for the floats of the program.  The rectangles are records        *)
(* [x, y, dx, dy] as the dataclass Rect.                                    *)
(***************************************************************************)
EXTENDS Integers, Sequences, FiniteSets, TLC

\* ------------------------------------------------------------------ bounds
\* longest sequence of weights handed to __squarify
MaxLen == 3
\* largest weight
MaxSize == 3
\* largest canvas width / height
MaxDim == 3
\* largest count of one severity class of a host
MaxCount == 1

\* ------------------------------------------------------- exact arithmetic
Abs(n) == IF n < 0 THEN -n ELSE n

RECURSIVE GCD(_, _)
GCD(a, b) == IF b = 0 THEN a ELSE GCD(b, a % b)

Reduce(n, d, g) == IF d < 0 THEN <<(-n) \div g, (-d) \div g>> ELSE <<n \div g, d \div g>>

\* n / d in lowest terms, the denominator positive
Norm(n, d) == Reduce(n, d, GCD(Abs(n), Abs(d)))

Q(n) == <<n, 1>>
Zero == Q(0)
Two == Q(2)
One == Q(1)

RAdd(a, b) == Norm(a[1] * b[2] + b[1] * a[2], a[2] * b[2])
RSub(a, b) == Norm(a[1] * b[2] - b[1] * a[2], a[2] * b[2])
RMul(a, b) == Norm(a[1] * b[1], a[2] * b[2])
\* a / b, for b # 0 (the callers model ZeroDivisionError before dividing)
RDiv(a, b) == Norm(a[1] * b[2], a[2] * b[1])
RLt(a, b) == a[1] * b[2] < b[1] * a[2]
RLe(a, b) == a[1] * b[2] <= b[1] * a[2]
RMax(a, b) == IF RLt(a, b) THEN b ELSE a

\* sum(sizes)
RECURSIVE RSum(_)
RSum(s) == IF Len(s) = 0 THEN Zero ELSE RAdd(Head(s), RSum(Tail(s)))

\* max(list)
RECURSIVE RMaxList(_)
RMaxList(s) ==
    IF Len(s) = 1 THEN s[1] ELSE RMax(s[1], RMaxList(Tail(s)))

\* math.ceil
Ceil(a) == -((-a[1]) \div a[2])

Prefix(s, i) == SubSeq(s, 1, i)

\* the list with the elements of f, built once
List(f) == f \o <<>>

\* -------------------------------------------------------------- the padder
Rect(x, y, dx, dy) == [x |-> x, y |-> y, dx |-> dx, dy |-> dy]

\* a padder insetting both axes as soon as one of them is large enough
create_rectangle_both(x, y, dx, dy) ==
    IF RLt(Two, dx) \/ RLt(Two, dy)
    THEN Rect(RAdd(x, One), RAdd(y, One), RSub(dx, Two), RSub(dy, Two))
    ELSE Rect(x, y, dx, dy)

\* __create_rectangle: add spacing of 1px, each axis on its own
create_rectangle(x, y, dx, dy) ==
    Rect(IF RLt(Two, dx) THEN RAdd(x, One) ELSE x,
         IF RLt(Two, dy) THEN RAdd(y, One) ELSE y,
         IF RLt(Two, dx) THEN RSub(dx, Two) ELSE dx,
         IF RLt(Two, dy) THEN RSub(dy, Two) ELSE dy)

Pad(r) == create_rectangle(r.x, r.y, r.dx, r.dy)

PadAll(rs) == List([i \in 1..Len(rs) |-> Pad(rs[i])])

\* --------------------------------------------------------------- the bands
\* a row band stacking its sizes last to first
\* the loop of __layoutrow: one rectangle of the band's width per size, y
\* advanced by size / width after each
row_of(sizes, x, y, width) ==
    List([i \in 1..Len(sizes) |->
            Rect(x, RAdd(y, RDiv(RSum(Prefix(sizes, i - 1)), width)),
                 width, RDiv(sizes[i], width))])

\* the loop of __layoutcol: one rectangle of the band's height per size, x
\* advanced by size / height after each
col_of(sizes, x, y, height) ==
    List([i \in 1..Len(sizes) |->
            Rect(RAdd(x, RDiv(RSum(Prefix(sizes, i - 1)), height)), y,
                 RDiv(sizes[i], height), height)])

Reverse(s) == List([i \in 1..Len(s) |-> s[Len(s) + 1 - i]])

\* a row band stacking its sizes last to first
layoutrow_args_reversed(sizes, x, y, dx, dy) ==
    row_of(Reverse(sizes), x, y, RDiv(RSum(sizes), dy))

\* The arguments __layoutrow hands to __create_rectangle, one per size.
layoutrow_args(sizes, x, y, dx, dy) ==
    row_of(sizes, x, y, RDiv(RSum(sizes), dy))

\* The arguments __layoutcol hands to __create_rectangle, one per size.
layoutcol_args(sizes, x, y, dx, dy) ==
    col_of(sizes, x, y, RDiv(RSum(sizes), dx))

layout_args(sizes, x, y, dx, dy) ==
    IF RLe(dy, dx) THEN layoutrow_args(sizes, x, y, dx, dy)
    ELSE layoutcol_args(sizes, x, y, dx, dy)

layoutrow(sizes, x, y, dx, dy) == PadAll(layoutrow_args(sizes, x, y, dx, dy))

layoutcol(sizes, x, y, dx, dy) == PadAll(layoutcol_args(sizes, x, y, dx, dy))

layout(sizes, x, y, dx, dy) ==
    IF RLe(dy, dx) THEN layoutrow(sizes, x, y, dx, dy)
    ELSE layoutcol(sizes, x, y, dx, dy)

\* ZeroDivisionError in __layout: covered_area / dy, size / width (or the
\* transpose), for a non-empty band
layout_fault(sizes, x, y, dx, dy) ==
    IF RLe(dy, dx) THEN dy = Zero \/ RSum(sizes) = Zero
    ELSE dx = Zero \/ RSum(sizes) = Zero

\* the leftover of __leftoverrow for a band of the given width
right_of(x, y, dx, dy, width) == Rect(RAdd(x, width), y, RSub(dx, width), dy)

\* the leftover of __leftovercol for a band of the given height
below(x, y, dx, dy, height) == Rect(x, RAdd(y, height), dx, RSub(dy, height))

\* a leftover that does not move its origin past the band
leftoverrow_samex(sizes, x, y, dx, dy) ==
    Rect(x, y, RSub(dx, RDiv(RSum(sizes), dy)), dy)

\* __leftoverrow: width = covered_area / dy
leftoverrow(sizes, x, y, dx, dy) == right_of(x, y, dx, dy, RDiv(RSum(sizes), dy))

\* a leftover that keeps the whole height
leftovercol_full(sizes, x, y, dx, dy) ==
    Rect(x, RAdd(y, RDiv(RSum(sizes), dx)), dx, dy)

\* __leftovercol: height = covered_area / dx
leftovercol(sizes, x, y, dx, dy) == below(x, y, dx, dy, RDiv(RSum(sizes), dx))

leftover(sizes, x, y, dx, dy) ==
    IF RLe(dy, dx) THEN leftoverrow(sizes, x, y, dx, dy)
    ELSE leftovercol(sizes, x, y, dx, dy)

\* --------------------------------------------------------- the split search
Ratio(r) == RMax(RDiv(r.dx, r.dy), RDiv(r.dy, r.dx))

worst_of(rs) == RMaxList(List([k \in 1..Len(rs) |-> Ratio(rs[k])]))

\* worst(i) of __find_split, on the rectangles __layout returns
worst(sizes, i, x, y, dx, dy) == worst_of(layout(Prefix(sizes, i), x, y, dx, dy))

\* worst(i) on the band's rectangles before __create_rectangle insets them
worst_unpadded(sizes, i, x, y, dx, dy) ==
    worst_of(layout_args(Prefix(sizes, i), x, y, dx, dy))

\* a split search that falls through to the whole sequence
RECURSIVE find_split_whole(_, _, _, _, _, _)
find_split_whole(i, sizes, x, y, dx, dy) ==
    IF i >= Len(sizes) THEN Len(sizes)
    ELSE IF RLt(worst(sizes, i, x, y, dx, dy), worst(sizes, i + 1, x, y, dx, dy))
         THEN i
         ELSE find_split_whole(i + 1, sizes, x, y, dx, dy)

\* the loop of __find_split from candidate i on
RECURSIVE find_split_from(_, _, _, _, _, _)
find_split_from(i, sizes, x, y, dx, dy) ==
    IF i >= Len(sizes) THEN Len(sizes) - 1
    ELSE IF RLt(worst(sizes, i, x, y, dx, dy), worst(sizes, i + 1, x, y, dx, dy))
         THEN i
         ELSE find_split_from(i + 1, sizes, x, y, dx, dy)

find_split(sizes, x, y, dx, dy) == find_split_from(1, sizes, x, y, dx, dy)

\* the same search with the ratios taken before the padding
RECURSIVE find_split_unpadded_from(_, _, _, _, _, _)
find_split_unpadded_from(i, sizes, x, y, dx, dy) ==
    IF i >= Len(sizes) THEN Len(sizes) - 1
    ELSE IF RLt(worst_unpadded(sizes, i, x, y, dx, dy),
                worst_unpadded(sizes, i + 1, x, y, dx, dy))
         THEN i
         ELSE find_split_unpadded_from(i + 1, sizes, x, y, dx, dy)

\* ---------------------------------------------------------------- squarify
\* sizes = [size * total_area / total_size for size in sizes]
rescale_by(sizes, total_area, total_size) ==
    List([i \in 1..Len(sizes) |-> RDiv(RMul(sizes[i], total_area), total_size)])

rescale(sizes, dx, dy) == rescale_by(sizes, RMul(dx, dy), RSum(sizes))

\* remaining = sizes[i:]
remaining(sizes, i) == SubSeq(sizes, i + 1, Len(sizes))

\* current = sizes[:i]
current(sizes, i) == Prefix(sizes, i)

\* ------------------------------------------------------------ python values
PyInt(n) == [t |-> "int", v |-> <<n>>]
PyStr == [t |-> "str", v |-> <<>>]
PyComplex == [t |-> "complex", v |-> <<>>]
\* a dict, as the sequence of its <<key, value>> items in iteration order
PyDict(items) == [t |-> "dict", v |-> items]
IsDict(d) == d.t = "dict"
\* isinstance(v, numbers.Number): int and float, and complex as well
IsNumber(v) == v.t \in {"int", "complex"}
None == "None"

\* ----------------------------------------------------------- the data shaper
\* the inner loop of __transform_to_tree_data from item k on: color, val_sum
\* (cx: val_sum has become a complex) and whether item_val > 0 raised
RECURSIVE sum_items(_, _, _, _, _)
sum_items(items, k, color, val_sum, cx) ==
    IF k > Len(items)
    THEN [color |-> color, val_sum |-> val_sum, cx |-> cx, raised |-> FALSE]
    ELSE IF ~IsNumber(items[k][2])
         THEN sum_items(items, k + 1, color, val_sum, cx)
         ELSE IF items[k][2].t = "complex"
              THEN IF color = None
                   THEN [color |-> color, val_sum |-> val_sum, cx |-> TRUE,
                         raised |-> TRUE]
                   ELSE sum_items(items, k + 1, color, val_sum, TRUE)
              ELSE sum_items(items, k + 1,
                             IF color = None /\ items[k][2].v[1] > 0
                             THEN items[k][1] ELSE color,
                             val_sum + items[k][2].v[1], cx)

\* color = None, val_sum = 0 and the inner loop, for one value of data
sum_value(val) ==
    IF IsDict(val) THEN sum_items(val.v, 1, None, 0, FALSE)
    ELSE [color |-> None, val_sum |-> 0, cx |-> FALSE, raised |-> FALSE]

NoLists == [values |-> <<>>, labels |-> <<>>, color_keys |-> <<>>, raised |-> FALSE]

\* the outer loop of __transform_to_tree_data from item k on
RECURSIVE shape_items(_, _, _)
shape_step(items, k, out, r) ==
    IF r.raised \/ (r.color # None /\ r.cx)
    THEN [out EXCEPT !.raised = TRUE]
    ELSE IF r.color # None /\ r.val_sum > 0
         THEN shape_items(items, k + 1,
                          [values |-> Append(out.values, r.val_sum),
                           labels |-> Append(out.labels, items[k][1]),
                           color_keys |-> Append(out.color_keys, r.color),
                           raised |-> FALSE])
         ELSE shape_items(items, k + 1, out)

shape_items(items, k, out) ==
    IF k > Len(items) THEN out
    ELSE shape_step(items, k, out, sum_value(items[k][2]))

\* __transform_to_tree_data(data): the three lists, or raised (TypeError)
transform_to_tree_data(d) ==
    IF IsDict(d) THEN shape_items(d.v, 1, NoLists) ELSE NoLists

\* ------------------------------------------------------------- the renderer
Min(a, b) == IF a < b THEN a ELSE b
Max(a, b) == IF a < b THEN b ELSE a

\* label[:k]
Slice(lab, k) ==
    IF k >= 0 THEN Prefix(lab, Min(k, Len(lab)))
    ELSE Prefix(lab, Max(0, Len(lab) + k))

\* a cut-off that spares the rectangle as high as the font
max_label_len_strict(d, lab, fs) ==
    IF RLt(d.dy, Q(fs)) THEN 0
    ELSE Ceil(RMul(RDiv(d.dx, Q(Len(lab) * fs)), Q(Len(lab))))

\* max_label_len of treemap, for label_size_in_px # 0
max_label_len(d, lab, fs) ==
    IF RLe(d.dy, Q(fs)) THEN 0
    ELSE Ceil(RMul(RDiv(d.dx, Q(Len(lab) * fs)), Q(Len(lab))))

\* _severity_class_colors of pheme.templatetags.charts
severity_class_colors ==
    [k \in {"high", "medium", "low"} |->
        IF k = "high" THEN "#C83814" ELSE IF k = "medium" THEN "#F0A519"
        ELSE "#4F91C7"]

\* title_color.get(key)
Get(table, key) == IF key \in DOMAIN table THEN table[key] ELSE None

\* one <g> of __ELEMENT_TEMPLATE
element(d, lab, color_key, fs, table) ==
    [x |-> d.x, y |-> d.y, width |-> d.dx, height |-> d.dy,
     color |-> Get(table, color_key),
     label_x |-> RAdd(d.x, One),
     label_y |-> RAdd(RAdd(d.y, RDiv(Q(fs), Two)), Q(5)),
     label |-> Slice(lab, max_label_len(d, lab, fs))]

\* ------------------------------------------------------------------- state
VARIABLES
    pc,          \* where the program is: "treemap", "squarify", "render", "done"
    caller,      \* who called __squarify: "layout" (directly) or "treemap"
    sizes, x, y, dx, dy,   \* the parameters of the pending call of __squarify
    rects,       \* the rectangles returned so far, in the order of the result
    args,        \* the arguments of the __create_rectangle call behind each
    depth,       \* how many calls of __squarify were entered
    splits,      \* the calls of __find_split: parameters and result
    weights,     \* the sizes of the outermost call of __squarify
    canvas,      \* the canvas of the outermost call of __squarify
    data, width, height, fontsize, title_color,   \* the parameters of treemap
    label, color_keys,     \* what __transform_to_tree_data returned
    elements,    \* the <g> groups of the markup, in order
    outcome      \* "running", "rects", "markup" or the exception raised

layoutvars == <<sizes, x, y, dx, dy, rects, args, depth, splits, weights, canvas>>
inputvars == <<data, width, height, fontsize, title_color>>
treevars == <<label, color_keys, elements>>
vars == <<pc, caller, layoutvars, inputvars, treevars, outcome>>

\* where __squarify returns to
Return == IF caller = "treemap" THEN "render" ELSE "done"

Raise(e) ==
    /\ pc' = "done"
    /\ outcome' = e

\* __squarify, len(sizes) == 0: return []
squarify_empty ==
    /\ pc = "squarify"
    /\ Len(sizes) = 0
    /\ pc' = Return
    /\ depth' = depth + 1
    /\ outcome' = IF caller = "layout" THEN "rects" ELSE outcome
    /\ UNCHANGED <<caller, sizes, x, y, dx, dy, rects, args, splits, weights,
                   canvas, inputvars, treevars>>

\* __squarify, len(sizes) == 1: return __layout(sizes, x, y, dx, dy)
squarify_single ==
    /\ pc = "squarify"
    /\ Len(sizes) = 1
    /\ depth' = depth + 1
    /\ IF RSum(sizes) = Zero \/ layout_fault(rescale(sizes, dx, dy), x, y, dx, dy)
       THEN /\ Raise("ZeroDivisionError")
            /\ UNCHANGED <<rects, args>>
       ELSE \E scaled \in {rescale(sizes, dx, dy)} :
                /\ rects' = rects \o layout(scaled, x, y, dx, dy)
                /\ args' = args \o layout_args(scaled, x, y, dx, dy)
                /\ pc' = Return
                /\ outcome' = IF caller = "layout" THEN "rects" ELSE outcome
    /\ UNCHANGED <<caller, sizes, x, y, dx, dy, splits, weights, canvas,
                   inputvars, treevars>>

\* __squarify, len(sizes) > 1: the band of the first i sizes, then the call
\* of __squarify on the remaining sizes and the leftover canvas
squarify_split ==
    /\ pc = "squarify"
    /\ Len(sizes) > 1
    /\ depth' = depth + 1
    /\ IF \/ RSum(sizes) = Zero
          \/ layout_fault(Prefix(rescale(sizes, dx, dy), 1), x, y, dx, dy)
       THEN /\ Raise("ZeroDivisionError")
            /\ UNCHANGED <<sizes, x, y, dx, dy, rects, args, splits>>
       ELSE \E scaled \in {rescale(sizes, dx, dy)} :
            \E i \in {find_split(scaled, x, y, dx, dy)} :
            \E cur \in {current(scaled, i)} :
            \E left \in {leftover(cur, x, y, dx, dy)} :
                /\ splits' = Append(splits,
                        [sizes |-> scaled, x |-> x, y |-> y, dx |-> dx,
                         dy |-> dy, i |-> i])
                /\ rects' = rects \o layout(cur, x, y, dx, dy)
                /\ args' = args \o layout_args(cur, x, y, dx, dy)
                /\ sizes' = remaining(scaled, i)
                /\ x' = left.x
                /\ y' = left.y
                /\ dx' = left.dx
                /\ dy' = left.dy
                /\ UNCHANGED <<pc, outcome>>
    /\ UNCHANGED <<caller, weights, canvas, inputvars, treevars>>

\* ----------------------------------------------------- the layout on its own
RECURSIVE SeqsUpTo(_, _)
SeqsUpTo(S, n) ==
    IF n = 0 THEN {<<>>}
    ELSE LET shorter == SeqsUpTo(S, n - 1)
         IN  shorter \cup {Append(s, e) : s \in {t \in shorter : Len(t) = n - 1}, e \in S}

NoData == PyInt(0)

\* the origins __squarify is called with
Origins == {<<0, 0>>, <<1, 2>>}

\* __squarify(sizes, x, y, dx, dy) called with positive sizes on a positive
\* canvas
InitLayout ==
    /\ pc = "squarify"
    /\ caller = "layout"
    /\ \E ws \in SeqsUpTo(1..MaxSize, MaxLen) :
          /\ weights = [i \in 1..Len(ws) |-> Q(ws[i])]
          /\ sizes = [i \in 1..Len(ws) |-> Q(ws[i])]
    /\ \E o \in Origins, w \in 1..MaxDim, h \in 1..MaxDim :
          /\ x = Q(o[1]) /\ y = Q(o[2]) /\ dx = Q(w) /\ dy = Q(h)
          /\ canvas = Rect(Q(o[1]), Q(o[2]), Q(w), Q(h))
    /\ rects = <<>> /\ args = <<>> /\ depth = 0 /\ splits = <<>>
    /\ data = NoData /\ width = 0 /\ height = 0 /\ fontsize = 0
    /\ title_color = <<>>
    /\ label = <<>> /\ color_keys = <<>> /\ elements = <<>>
    /\ outcome = "running"

\* ------------------------------------------------------------------ treemap
\* treemap up to its call of __squarify: the default of title_color,
\* __transform_to_tree_data(data), and the call's parameters
treemap_shape ==
    /\ pc = "treemap"
    /\ title_color' = IF DOMAIN title_color = {} THEN severity_class_colors
                      ELSE title_color
    /\ \E t \in {transform_to_tree_data(data)} :
          IF t.raised
          THEN /\ Raise("TypeError")
               /\ UNCHANGED <<sizes, weights, label, color_keys>>
          ELSE /\ pc' = "squarify"
               /\ sizes' = [i \in 1..Len(t.values) |-> Q(t.values[i])]
               /\ weights' = [i \in 1..Len(t.values) |-> Q(t.values[i])]
               /\ label' = t.labels
               /\ color_keys' = t.color_keys
               /\ UNCHANGED outcome
    /\ x' = Zero /\ y' = Zero /\ dx' = Q(width) /\ dy' = Q(height)
    /\ canvas' = Rect(Zero, Zero, Q(width), Q(height))
    /\ UNCHANGED <<caller, rects, args, depth, splits, data, width, height,
                   fontsize, elements>>

\* treemap after __squarify returned: the loop over the rectangles and the
\* markup
treemap_render ==
    /\ pc = "render"
    /\ IF \E i \in 1..Len(rects) : Len(label[i]) * fontsize = 0
       THEN /\ Raise("ZeroDivisionError")
            /\ UNCHANGED elements
       ELSE /\ elements' = [i \in 1..Len(rects) |->
                   element(rects[i], label[i], color_keys[i], fontsize, title_color)]
            /\ pc' = "done"
            /\ outcome' = "markup"
    /\ UNCHANGED <<caller, layoutvars, inputvars, label, color_keys>>

\* the hosts of data, in the order they are inserted
Hosts == << <<>>, <<"h">>, <<"h", "2">> >>

\* the severity counts of one host
SeverityDicts ==
    {PyDict(<< <<"high", PyInt(a)>>, <<"medium", PyInt(b)>> >>) :
        a \in 0..MaxCount, b \in 0..MaxCount}

RECURSIVE items_of(_, _, _)
items_of(I, f, k) ==
    IF k > Len(Hosts) THEN <<>>
    ELSE IF k \in I THEN << <<Hosts[k], f[k]>> >> \o items_of(I, f, k + 1)
         ELSE items_of(I, f, k + 1)

\* data: some of the hosts, each with its severity counts
TreeData ==
    UNION {{PyDict(items_of(I, f, 1)) : f \in [I -> SeverityDicts]} :
              I \in SUBSET (1..Len(Hosts))}

\* the color tables: none given, and one that lacks "medium"
Tables == {<<>>, [k \in {"high"} |-> "#ff0000"]}

\* treemap(data, width, height, fontsize, border_color, title_color)
InitTreemap ==
    /\ pc = "treemap"
    /\ caller = "treemap"
    /\ data \in TreeData
    /\ width \in 0..MaxDim
    /\ height \in 0..MaxDim
    /\ fontsize \in 1..2
    /\ title_color \in Tables
    /\ sizes = <<>> /\ weights = <<>>
    /\ x = Zero /\ y = Zero /\ dx = Zero /\ dy = Zero
    /\ canvas = Rect(Zero, Zero, Zero, Zero)
    /\ rects = <<>> /\ args = <<>> /\ depth = 0 /\ splits = <<>>
    /\ label = <<>> /\ color_keys = <<>> /\ elements = <<>>
    /\ outcome = "running"

NextTreemap ==
    \/ treemap_shape
    \/ squarify_empty
    \/ squarify_single
    \/ squarify_split
    \/ treemap_render

SpecTreemap == InitTreemap /\ [][NextTreemap]_vars

\* ---------------------------------------------- the data shaper on its own
\* __transform_to_tree_data(data)
shape ==
    /\ pc = "shape"
    /\ \E t \in {transform_to_tree_data(data)} :
          /\ sizes' = t.values
          /\ label' = t.labels
          /\ color_keys' = t.color_keys
          /\ outcome' = IF t.raised THEN "TypeError" ELSE "lists"
    /\ pc' = "done"
    /\ UNCHANGED <<caller, x, y, dx, dy, rects, args, depth, splits, weights,
                   canvas, inputvars, elements>>

ColorKeys == {"high", "medium"}

\* what a severity dict may hold under a key
ItemValues == {PyInt(n) : n \in (-1)..(MaxCount + 1)} \cup {PyStr, PyComplex}

DistinctKeys(items) ==
    \A i, j \in 1..Len(items) : i # j => items[i][1] # items[j][1]

\* the dicts with keys among Keys and values among Vals, in every order
Dicts(Keys, Vals) ==
    {PyDict(items) : items \in
        {s \in SeqsUpTo(Keys \X Vals, Cardinality(Keys)) : DistinctKeys(s)}}

ShapeHosts == {<<"h", "1">>, <<"h", "2">>}

\* any value: a dict of dicts and of other values, or no dict at all
ShapeData ==
    Dicts(ShapeHosts, Dicts(ColorKeys, ItemValues) \cup {PyStr}) \cup {PyInt(12)}

InitShape ==
    /\ pc = "shape"
    /\ caller = "shape"
    /\ data \in ShapeData
    /\ width = 0 /\ height = 0 /\ fontsize = 0 /\ title_color = <<>>
    /\ sizes = <<>> /\ weights = <<>>
    /\ x = Zero /\ y = Zero /\ dx = Zero /\ dy = Zero
    /\ canvas = Rect(Zero, Zero, Zero, Zero)
    /\ rects = <<>> /\ args = <<>> /\ depth = 0 /\ splits = <<>>
    /\ label = <<>> /\ color_keys = <<>> /\ elements = <<>>
    /\ outcome = "running"

NextShape == shape

SpecShape == InitShape /\ [][NextShape]_vars

NextLayout == squarify_empty \/ squarify_single \/ squarify_split

SpecLayout == InitLayout /\ [][NextLayout]_vars

\* ================================================================== claims
Area(r) == RMul(r.dx, r.dy)

RECURSIVE AreaSum(_)
AreaSum(rs) == IF Len(rs) = 0 THEN Zero ELSE RAdd(Area(Head(rs)), AreaSum(Tail(rs)))

\* __squarify has returned the rectangles of a non-empty sequence of weights
LayoutDone ==
    /\ pc = "done"
    /\ caller = "layout"
    /\ outcome = "rects"
    /\ Len(weights) > 0

\* C1: the areas of the rectangles __squarify places, before the padding,
\* sum to width * height of the canvas.
AreaConservation == LayoutDone => AreaSum(args) = Area(canvas)

AreaConservationWitness ==
    /\ LayoutDone
    /\ Len(splits) >= 2
    /\ Len(args) >= 3
    /\ AreaSum(args) = Area(canvas)

\* The area the i-th weight is entitled to on the canvas.
Share(i) == RDiv(RMul(weights[i], Area(canvas)), RSum(weights))

\* C2: __squarify returns one rectangle per weight, and the i-th rectangle
\* is the padded rectangle of the i-th weight: before the padding its area is
\* weights[i] * width * height / sum(weights).
OrderPreservation ==
    LayoutDone =>
        /\ Len(rects) = Len(weights)
        /\ Len(args) = Len(weights)
        /\ \A i \in 1..Len(weights) :
              /\ Area(args[i]) = Share(i)
              /\ rects[i] = Pad(args[i])

OrderPreservationWitness ==
    /\ LayoutDone
    /\ Len(weights) >= 3
    /\ Len(splits) >= 2
    /\ \A i, j \in 1..Len(weights) : i # j => weights[i] # weights[j]
    /\ Len(rects) = Len(weights)
    /\ \A i \in 1..Len(weights) : Area(args[i]) = Share(i)

Inside(r, c) ==
    /\ RLe(c.x, r.x)
    /\ RLe(c.y, r.y)
    /\ RLe(RAdd(r.x, r.dx), RAdd(c.x, c.dx))
    /\ RLe(RAdd(r.y, r.dy), RAdd(c.y, c.dy))

\* the interiors of a and b meet
Overlap(a, b) ==
    /\ RLt(a.x, RAdd(b.x, b.dx))
    /\ RLt(b.x, RAdd(a.x, a.dx))
    /\ RLt(a.y, RAdd(b.y, b.dy))
    /\ RLt(b.y, RAdd(a.y, a.dy))

\* C3: every rectangle placed by __squarify, before the padding, has positive
\* width and height and lies inside the canvas, no two of them overlap, and
\* a single weight gets the whole canvas.
Partition ==
    LayoutDone =>
        /\ \A i \in 1..Len(args) :
              /\ RLt(Zero, args[i].dx)
              /\ RLt(Zero, args[i].dy)
              /\ Inside(args[i], canvas)
        /\ \A i, j \in 1..Len(args) : i # j => ~Overlap(args[i], args[j])
        /\ Len(weights) = 1 => args = <<canvas>>

PartitionWitness ==
    /\ LayoutDone
    /\ Len(args) >= 3
    /\ Len(splits) >= 2
    /\ \A i \in 1..Len(args) : Inside(args[i], canvas)
    /\ \A i, j \in 1..Len(args) : i # j => ~Overlap(args[i], args[j])

\* C8 as claimed: a rectangle whose width is <= 2 or whose height is <= 2 is
\* returned by __create_rectangle with x, y, width and height unchanged.
PadderLeavesSmallUnpadded ==
    \A i \in 1..Len(rects) :
        (RLe(args[i].dx, Two) \/ RLe(args[i].dy, Two)) => rects[i] = args[i]

\* C8 as amended: __create_rectangle treats each axis on its own: an axis
\* whose extent is <= 2 keeps its origin and extent, an axis whose extent is
\* > 2 is inset by 1 on each side; the rectangle is returned unchanged
\* exactly when both its width and its height are <= 2.
PadderPerAxis ==
    \A i \in 1..Len(rects) :
        LET a == args[i]
            r == rects[i]
        IN  /\ RLe(a.dx, Two) => (r.x = a.x /\ r.dx = a.dx)
            /\ RLe(a.dy, Two) => (r.y = a.y /\ r.dy = a.dy)
            /\ RLt(Two, a.dx) => (r.x = RAdd(a.x, One) /\ r.dx = RSub(a.dx, Two))
            /\ RLt(Two, a.dy) => (r.y = RAdd(a.y, One) /\ r.dy = RSub(a.dy, Two))
            /\ (r = a) <=> (RLe(a.dx, Two) /\ RLe(a.dy, Two))

PadderPerAxisWitness ==
    \E i \in 1..Len(rects) :
        /\ RLe(args[i].dx, Two)
        /\ RLt(Two, args[i].dy)
        /\ rects[i].x = args[i].x
        /\ rects[i].dx = args[i].dx
        /\ rects[i].y = RAdd(args[i].y, One)
        /\ rects[i].dy = RSub(args[i].dy, Two)

\* The candidates of a call s of __find_split: the i with worst(i) < worst(i+1).
Candidates(s) ==
    {i \in 1..(Len(s.sizes) - 1) :
        RLt(worst(s.sizes, i, s.x, s.y, s.dx, s.dy),
            worst(s.sizes, i + 1, s.x, s.y, s.dx, s.dy))}

Least(S) == CHOOSE i \in S : \A j \in S : i <= j

\* C9: __find_split returns the smallest i in 1..n-1 with
\* worst(i) < worst(i+1), and n-1 when there is none; the result lies in
\* 1..n-1, so the band and the remainder are both non-empty.
SplitSearch ==
    \A k \in 1..Len(splits) :
        LET s == splits[k]
            n == Len(s.sizes)
        IN  /\ n >= 2
            /\ s.i \in 1..(n - 1)
            /\ s.i = IF Candidates(s) # {} THEN Least(Candidates(s)) ELSE n - 1
            /\ Len(current(s.sizes, s.i)) >= 1
            /\ Len(remaining(s.sizes, s.i)) >= 1

SplitSearchWitness ==
    \E k \in 1..Len(splits) :
        LET s == splits[k]
        IN  /\ Len(s.sizes) >= 3
            /\ Candidates(s) # {}
            /\ s.i = 2
            /\ s.i = Least(Candidates(s))

\* The layout of C10: __squarify with the split search comparing the band's
\* rectangles as they are before the padding; it returns unpadded rectangles.
RECURSIVE squarify_unpadded(_, _, _, _, _)
unpadded_rest(rest, left) ==
    squarify_unpadded(rest, left.x, left.y, left.dx, left.dy)

unpadded_band(scaled, i, cx, cy, cdx, cdy) ==
    layout_args(current(scaled, i), cx, cy, cdx, cdy)
    \o unpadded_rest(remaining(scaled, i),
                     leftover(current(scaled, i), cx, cy, cdx, cdy))

unpadded_scaled(scaled, cx, cy, cdx, cdy) ==
    IF Len(scaled) = 1 THEN layout_args(scaled, cx, cy, cdx, cdy)
    ELSE unpadded_band(scaled, find_split_unpadded_from(1, scaled, cx, cy, cdx, cdy),
                       cx, cy, cdx, cdy)

squarify_unpadded(ws, cx, cy, cdx, cdy) ==
    IF Len(ws) = 0 THEN <<>>
    ELSE unpadded_scaled(rescale(ws, cdx, cdy), cx, cy, cdx, cdy)

\* C10: the rectangles __squarify returns are the padded rectangles of the
\* layout whose split search compares unpadded rectangles: padding never
\* changes a split index.
PaddingIsPostStep ==
    LayoutDone =>
        rects = PadAll(squarify_unpadded(weights, canvas.x, canvas.y,
                                         canvas.dx, canvas.dy))

\* The numeric entries of a sub-mapping, as the claims speak of them: the
\* keys, in order, whose value is a real number.
IsReal(it) == it[2].t = "int"
IsPositive(it) == it[2].t = "int" /\ it[2].v[1] > 0

RECURSIVE SumOf(_)
SumOf(items) == IF Len(items) = 0 THEN 0 ELSE Head(items)[2].v[1] + SumOf(Tail(items))

NumericSum(val) == SumOf(SelectSeq(val.v, IsReal))

\* an outer item that is emitted according to C4
Qualifies(it) ==
    /\ IsDict(it[2])
    /\ SelectSeq(it[2].v, IsPositive) # <<>>
    /\ NumericSum(it[2]) > 0

Emitted(d) == IF IsDict(d) THEN SelectSeq(d.v, Qualifies) ELSE <<>>

ShaperLists(q) ==
    /\ Len(sizes) = Len(q)
    /\ Len(label) = Len(q)
    /\ Len(color_keys) = Len(q)
    /\ \A i \in 1..Len(q) :
          /\ sizes[i] = NumericSum(q[i][2])
          /\ sizes[i] > 0
          /\ label[i] = q[i][1]
          /\ color_keys[i] = Head(SelectSeq(q[i][2].v, IsPositive))[1]

\* C4: __transform_to_tree_data never raises; it returns three lists of equal
\* length holding, in the order of data, exactly the keys whose value is a
\* mapping with a positive numeric entry and a positive numeric sum: the sum
\* as weight, the key as label, the first positive sub-key as color key.
ShaperContract ==
    (pc = "done" /\ caller = "shape") =>
        /\ outcome = "lists"
        /\ ShaperLists(Emitted(data))

\* What holds of __transform_to_tree_data whenever it returns.
ShaperListsWhenReturned ==
    (pc = "done" /\ caller = "shape" /\ outcome = "lists") =>
        ShaperLists(Emitted(data))

TreemapDone == pc = "done" /\ caller = "treemap"

\* C5: on data mapping labels to mappings of numbers, with width > 0,
\* height > 0 and fontsize > 0, treemap returns markup and raises nothing,
\* after at most one call of __squarify per dataset item.
Totality ==
    (TreemapDone /\ width > 0 /\ height > 0 /\ fontsize > 0) =>
        /\ outcome = "markup"
        /\ depth <= Max(1, Len(label))

\* C6: with width = 0 or height = 0 treemap fails with an invalid-argument
\* error of its input validation: no ZeroDivisionError, no markup.
ZeroCanvasRejected ==
    (TreemapDone /\ (width = 0 \/ height = 0)) => outcome = "ValueError"

\* C7: in the markup of treemap, every item whose padded rectangle has
\* height <= fontsize carries the empty label.
LabelSuppression ==
    (TreemapDone /\ outcome = "markup") =>
        /\ Len(elements) = Len(rects)
        /\ \A i \in 1..Len(elements) :
              RLe(rects[i].dy, Q(fontsize)) => elements[i].label = <<>>

LabelSuppressionWitness ==
    /\ TreemapDone
    /\ outcome = "markup"
    /\ \E i, j \in 1..Len(elements) :
          /\ RLe(rects[i].dy, Q(fontsize))
          /\ label[i] # <<>>
          /\ elements[i].label = <<>>
          /\ RLt(Q(fontsize), rects[j].dy)
          /\ elements[j].label # <<>>

====
